---- MODULE Spec2Model ----
\* Model of src/src/docker_mgr.py: the ServerManager facade over a container
\* runtime, its environment builder and its two path helpers.
\*
\* Strings that the code builds by concatenation (container names, paths) are
\* sequences of tokens: the name "mc1-Backup" is <<"mc1", "-Backup">>, the path
\* "/srv/mc1" is <<"/", "srv", "/", "mc1">>.
EXTENDS Integers, Sequences, FiniteSets, TLC

VARIABLES
    name,              \* self._name
    containers,        \* the runtime's containers (self._client's view): records
    nextId,            \* the identity the runtime assigns to the next container
    container,         \* self._container: NULL or a snapshot handle
    backup_container,  \* self._backup_container: NULL or the value run() returned
    lastOp,            \* the operation the caller invoked last, with its force flag
    prev,              \* the operation before it, and whether it succeeded
    calls,             \* the runtime calls that operation issued, in order
    logs,              \* the messages that operation logged, in order
    raised             \* the exception that operation let propagate, or NoException

vars == <<name, containers, nextId, container, backup_container,
          lastOp, prev, calls, logs, raised>>

\* ---------------------------------------------------------------- bounds

MaxCreated == 2

\* ---------------------------------------------------------------- values

ServicePort == 25565

NULL == [id |-> 0, name |-> <<>>, status |-> "null"]

None == <<"None">>

NoException == "none"

ServerNames == {<<"mc1">>}

\* the names of the containers the host may hold before the manager is built,
\* each with the identity the runtime gave it
HostNames == {<<"mc1">>, <<"other">>}

HostId(n) == IF n = <<"mc1">> THEN 1 ELSE 2

Statuses == {"created", "running", "exited"}

HealthValues == {"healthy", "starting", "unhealthy"}

BackupNameOf(n) == n \o <<"-Backup">>

Roots == {<<"/", "srv", "/", "mc1">>, <<"srv", "/">>}

BackupDirs == {None, <<"/", "bk">>}

ArgsSet == [version : {"1.20.1"}, java : {"17"}, port : {ServicePort},
            root : Roots, backupdir : BackupDirs]

\* ---------------------------------------------------------------- logger

Log(level, msg) == [level |-> level, msg |-> msg]

\* An operation succeeded when its last message is its success message and it
\* raised nothing.
Succeeded(lg, exc) ==
    exc = NoException /\ Len(lg) > 0 /\ lg[Len(lg)].level = "success"

\* ---------------------------------------------------------------- helpers

isnone(value, default) == IF value = None THEN default ELSE value

LastSlash(d) ==
    IF \E i \in 1..Len(d) : d[i] = "/"
    THEN CHOOSE i \in 1..Len(d) : d[i] = "/" /\ \A j \in (i+1)..Len(d) : d[j] # "/"
    ELSE 0

dir_above(dir) ==
    LET d == IF Len(dir) > 0 /\ dir[Len(dir)] = "/"
             THEN SubSeq(dir, 1, Len(dir) - 1) ELSE dir
    IN  SubSeq(d, 1, LastSlash(d) - 1) \o <<"/">>

_build_env(args) == [VERSION |-> args.version, EULA |-> TRUE]

\* ---------------------------------------------------------------- runtime
\* The container runtime behind self._client (docker-py). A container is
\* [id, name, status]; names are unique in the runtime.

Exists(cs, id) == \E c \in cs : c.id = id

Get(cs, id) == CHOOSE c \in cs : c.id = id

SetStatus(cs, id, st) ==
    {IF c.id = id THEN [c EXCEPT !.status = st] ELSE c : c \in cs}

IdByName(cs, n) ==
    IF \E c \in cs : c.name = n THEN (CHOOSE c \in cs : c.name = n).id ELSE 0

Ok(cs) == [ok |-> TRUE, exc |-> NoException, containers |-> cs]

Fail(exc, cs) == [ok |-> FALSE, exc |-> exc, containers |-> cs]

\* client.containers.run(image, name=n, ...): creates and starts a container.
\* With detach=True it returns at once and the container is running; without
\* it, it returns when the container has exited.
DockerRun(cs, id, n, detach, fault) ==
    IF fault THEN Fail("APIError", cs)
    ELSE IF \E c \in cs : c.name = n THEN Fail("APIError", cs)
    ELSE Ok(cs \cup {[id |-> id, name |-> n,
                      status |-> IF detach THEN "running" ELSE "exited"]})

\* Container.start(): starting a running container is accepted by the runtime.
DockerStart(cs, id) ==
    IF ~Exists(cs, id) THEN Fail("NotFound", cs)
    ELSE Ok(SetStatus(cs, id, "running"))

\* Container.kill(): the runtime refuses to kill a container that is not running.
DockerKill(cs, id) ==
    IF ~Exists(cs, id) THEN Fail("NotFound", cs)
    ELSE IF Get(cs, id).status # "running" THEN Fail("APIError", cs)
    ELSE Ok(SetStatus(cs, id, "exited"))

\* Container.stop(): stopping a container that is not running changes nothing.
DockerStop(cs, id) ==
    IF ~Exists(cs, id) THEN Fail("NotFound", cs)
    ELSE IF Get(cs, id).status = "running" THEN Ok(SetStatus(cs, id, "exited"))
    ELSE Ok(cs)

\* Container.restart()
DockerRestart(cs, id) ==
    IF ~Exists(cs, id) THEN Fail("NotFound", cs)
    ELSE Ok(SetStatus(cs, id, "running"))

\* Container.remove(): the runtime refuses to remove a running container.
DockerRemove(cs, id) ==
    IF ~Exists(cs, id) THEN Fail("NotFound", cs)
    ELSE IF Get(cs, id).status = "running" THEN Fail("APIError", cs)
    ELSE Ok({c \in cs : c.id # id})

Call(op, id) == [op |-> op, id |-> id]

\* ---------------------------------------------------------------- manager

\* Variant: the scan lists running containers only (list() without all=True).
_get_container_running_only(cs) ==
    IF \E c \in cs : c.name = name /\ c.status = "running"
    THEN CHOOSE c \in cs : c.name = name /\ c.status = "running"
    ELSE NULL

\* The name scan; cs is what client.containers.list(all=True) returns.
_get_container(cs) ==
    IF \E c \in cs : c.name = name THEN CHOOSE c \in cs : c.name = name ELSE NULL

\* What an operation leaves behind: the runtime, the two references, and what
\* the caller can observe of it (calls issued, messages logged, exception).
Outcome(cs, nid, cont, bcont, cl, lg, exc) ==
    [containers |-> cs, nextId |-> nid, container |-> cont,
     backup_container |-> bcont, calls |-> cl, logs |-> lg, raised |-> exc]

Same(cl, lg, exc) ==
    Outcome(containers, nextId, container, backup_container, cl, lg, exc)

RunCall(id, image, n, ports, env, volumes, detach) ==
    [op |-> "run", id |-> id, image |-> image, name |-> n, ports |-> ports,
     environment |-> env, volumes |-> volumes, detach |-> detach]

ListCall == Call("list", 0)

EmptyMap == [k \in {} |-> TRUE]

\* Variant: the reference is not refreshed after the run call.
create_server_norefresh(args, rootExists, fault) ==
    LET warn == IF rootExists
                THEN <<Log("warn", <<"Server root '">> \o args.root
                                   \o <<"' exists - there may be problems!">>)>>
                ELSE <<>>
        r    == DockerRun(containers, nextId, name, TRUE, fault = "run")
        run  == RunCall(IF r.ok THEN nextId ELSE 0,
                        <<"itzg/minecraft-server:java", args.java>>, name,
                        [p \in {ServicePort} |-> args.port], _build_env(args),
                        [h \in {args.root} |-> [bind |-> "/data", mode |-> "rw"]],
                        TRUE)
        failed(exc) == warn \o <<Log("err", <<"Failed to Create Server">>),
                                 Log("err", <<exc>>)>>
    IN  IF ~r.ok
        THEN Same(<<run>>, failed(r.exc), NoException)
        ELSE Outcome(r.containers, nextId + 1, container, backup_container,
                     <<run>>,
                     warn \o <<Log("success", <<"Successfully Created Server">>)>>,
                     NoException)

\* Variant: the handler logs the failure and raises it again.
create_server_reraise(args, rootExists, fault) ==
    LET warn == IF rootExists
                THEN <<Log("warn", <<"Server root '">> \o args.root
                                   \o <<"' exists - there may be problems!">>)>>
                ELSE <<>>
        r    == DockerRun(containers, nextId, name, TRUE, fault = "run")
        run  == RunCall(IF r.ok THEN nextId ELSE 0,
                        <<"itzg/minecraft-server:java", args.java>>, name,
                        [p \in {ServicePort} |-> args.port], _build_env(args),
                        [h \in {args.root} |-> [bind |-> "/data", mode |-> "rw"]],
                        TRUE)
        failed(exc) == warn \o <<Log("err", <<"Failed to Create Server">>),
                                 Log("err", <<exc>>)>>
    IN  IF ~r.ok
        THEN Same(<<run>>, failed(r.exc), r.exc)
        ELSE IF fault = "scan"
        THEN Outcome(r.containers, nextId + 1, container, backup_container,
                     <<run, ListCall>>, failed("APIError"), "APIError")
        ELSE Outcome(r.containers, nextId + 1, _get_container(r.containers),
                     backup_container, <<run, ListCall>>,
                     warn \o <<Log("success", <<"Successfully Created Server">>)>>,
                     NoException)

create_server(args, rootExists, fault) ==
    LET warn == IF rootExists
                THEN <<Log("warn", <<"Server root '">> \o args.root
                                   \o <<"' exists - there may be problems!">>)>>
                ELSE <<>>
        r    == DockerRun(containers, nextId, name, TRUE, fault = "run")
        run  == RunCall(IF r.ok THEN nextId ELSE 0,
                        <<"itzg/minecraft-server:java", args.java>>, name,
                        [p \in {ServicePort} |-> args.port], _build_env(args),
                        [h \in {args.root} |-> [bind |-> "/data", mode |-> "rw"]],
                        TRUE)
        failed(exc) == warn \o <<Log("err", <<"Failed to Create Server">>),
                                 Log("err", <<exc>>)>>
    IN  IF ~r.ok
        THEN Same(<<run>>, failed(r.exc), NoException)
        ELSE IF fault = "scan"
        THEN Outcome(r.containers, nextId + 1, container, backup_container,
                     <<run, ListCall>>, failed("APIError"), NoException)
        ELSE Outcome(r.containers, nextId + 1, _get_container(r.containers),
                     backup_container, <<run, ListCall>>,
                     warn \o <<Log("success", <<"Successfully Created Server">>)>>,
                     NoException)

\* run() without detach returns the container's log output once it has exited,
\* and raises ContainerError when it exited with a non-zero code.
LogsOf(id) == [id |-> id, name |-> BackupNameOf(name), status |-> "logs"]

_start_backup_cont(args, exitOk, fault) ==
    LET bdir == isnone(args.backupdir,
                       dir_above(args.root) \o <<"/">> \o name \o <<"-Backups">>)
        r    == DockerRun(containers, nextId, BackupNameOf(name), FALSE, fault)
        run  == RunCall(IF r.ok THEN nextId ELSE 0, <<"itzg/mc-backup">>,
                        BackupNameOf(name), EmptyMap, EmptyMap,
                        [h \in {args.root, bdir} |->
                            IF h = bdir THEN [bind |-> "/backups", mode |-> "rw"]
                                        ELSE [bind |-> "/data", mode |-> "ro"]],
                        FALSE)
        failed(exc) == <<Log("err", <<"Failed to Create Backup Service for Server">>),
                         Log("err", <<exc>>)>>
    IN  IF ~r.ok
        THEN Same(<<run>>, failed(r.exc), NoException)
        ELSE IF ~exitOk
        THEN Outcome(r.containers, nextId + 1, container, backup_container,
                     <<run>>, failed("ContainerError"), NoException)
        ELSE Outcome(r.containers, nextId + 1, container, LogsOf(nextId),
                     <<run>>, <<>>, NoException)

stop_server(force) ==
    IF container = NULL
    THEN Same(<<>>, <<Log("err", <<"Failed to Stop Server">>)>>, NoException)
    ELSE LET r == IF force THEN DockerKill(containers, container.id)
                           ELSE DockerStop(containers, container.id)
         IN  Outcome(r.containers, nextId, container, backup_container,
                     <<Call(IF force THEN "kill" ELSE "stop", container.id)>>,
                     <<IF r.ok THEN Log("success", <<"Successfully Stopped Server">>)
                               ELSE Log("err", <<"Failed to Stop Server">>)>>,
                     NoException)

\* Variant: the null reference is not caught (no try around the body).
delete_server_uncaught ==
    LET s == stop_server(TRUE)
    IN  IF container = NULL
        THEN Outcome(s.containers, nextId, container, backup_container, s.calls,
                     s.logs, "AttributeError")
        ELSE LET r == DockerRemove(s.containers, container.id)
             IN  Outcome(r.containers, nextId, container, backup_container,
                         s.calls \o <<Call("remove", container.id)>>,
                         s.logs \o
                         <<IF r.ok THEN Log("success", <<"Successfully Deleted Server">>)
                                   ELSE Log("err", <<"Failed to Delete Server">>)>>,
                         IF r.ok THEN NoException ELSE r.exc)

\* Variant: delete also removes the backup container and drops its reference.
delete_server_with_backup ==
    LET s == stop_server(TRUE)
    IN  IF container = NULL
        THEN Outcome(s.containers, nextId, container, backup_container, s.calls,
                     s.logs \o <<Log("err", <<"Failed to Delete Server">>)>>,
                     NoException)
        ELSE LET r == DockerRemove(s.containers, container.id)
                 b == IdByName(r.containers, BackupNameOf(name))
             IN  IF r.ok /\ b # 0
                 THEN Outcome(DockerRemove(r.containers, b).containers, nextId,
                              container, NULL,
                              s.calls \o <<Call("remove", container.id),
                                           Call("remove", b)>>,
                              s.logs \o
                              <<Log("success", <<"Successfully Deleted Server">>)>>,
                              NoException)
                 ELSE Outcome(r.containers, nextId, container, backup_container,
                         s.calls \o <<Call("remove", container.id)>>,
                         s.logs \o
                         <<IF r.ok THEN Log("success", <<"Successfully Deleted Server">>)
                                   ELSE Log("err", <<"Failed to Delete Server">>)>>,
                         NoException)

\* Variant: a failed force-stop aborts the delete before the remove call.
delete_server_abort_on_kill ==
    LET s == stop_server(TRUE)
    IN  IF container = NULL \/ ~Succeeded(s.logs, s.raised)
        THEN Outcome(s.containers, nextId, container, backup_container, s.calls,
                     s.logs \o <<Log("err", <<"Failed to Delete Server">>)>>,
                     NoException)
        ELSE LET r == DockerRemove(s.containers, container.id)
             IN  Outcome(r.containers, nextId, container, backup_container,
                         s.calls \o <<Call("remove", container.id)>>,
                         s.logs \o
                         <<IF r.ok THEN Log("success", <<"Successfully Deleted Server">>)
                                   ELSE Log("err", <<"Failed to Delete Server">>)>>,
                         NoException)

delete_server ==
    LET s == stop_server(TRUE)
    IN  IF container = NULL
        THEN Outcome(s.containers, nextId, container, backup_container, s.calls,
                     s.logs \o <<Log("err", <<"Failed to Delete Server">>)>>,
                     NoException)
        ELSE LET r == DockerRemove(s.containers, container.id)
             IN  Outcome(r.containers, nextId, container, backup_container,
                         s.calls \o <<Call("remove", container.id)>>,
                         s.logs \o
                         <<IF r.ok THEN Log("success", <<"Successfully Deleted Server">>)
                                   ELSE Log("err", <<"Failed to Delete Server">>)>>,
                         NoException)

\* Variant: no check of the held state before the start call.
start_server_unchecked ==
    IF container = NULL
    THEN Same(<<>>, <<>>, "AttributeError")
    ELSE LET r == DockerStart(containers, container.id)
         IN  IF ~r.ok
             THEN Same(<<Call("start", container.id)>>, <<>>, r.exc)
             ELSE Outcome(r.containers, nextId, _get_container(r.containers),
                          backup_container,
                          <<Call("start", container.id), ListCall>>,
                          <<Log("success", <<"Successfully Started Server">>)>>,
                          NoException)

start_server ==
    IF container # NULL /\ container.status = "running"
    THEN Same(<<>>, <<Log("warn", <<"Server Already Running">>)>>, NoException)
    ELSE IF container = NULL
    THEN Same(<<>>, <<>>, "AttributeError")
    ELSE LET r == DockerStart(containers, container.id)
         IN  IF ~r.ok
             THEN Same(<<Call("start", container.id)>>, <<>>, r.exc)
             ELSE Outcome(r.containers, nextId, _get_container(r.containers),
                          backup_container,
                          <<Call("start", container.id), ListCall>>,
                          <<Log("success", <<"Successfully Started Server">>)>>,
                          NoException)

\* Variant: the kill's failure is swallowed on its own, so the start follows it.
restart_server_start_anyway(force) ==
    LET failed == <<Log("err", <<"Failed to Restart Server">>)>>
        done   == <<Log("success", <<"Successfully Restarted Server">>)>>
    IN  IF container = NULL
        THEN Same(<<>>, failed, NoException)
        ELSE IF force
        THEN LET k == DockerKill(containers, container.id)
                 s == DockerStart(k.containers, container.id)
             IN  Outcome(s.containers, nextId, container, backup_container,
                         <<Call("kill", container.id), Call("start", container.id)>>,
                         IF s.ok THEN done ELSE failed, NoException)
        ELSE LET r == DockerRestart(containers, container.id)
             IN  Outcome(r.containers, nextId, container, backup_container,
                         <<Call("restart", container.id)>>,
                         IF r.ok THEN done ELSE failed, NoException)

restart_server(force) ==
    LET failed == <<Log("err", <<"Failed to Restart Server">>)>>
        done   == <<Log("success", <<"Successfully Restarted Server">>)>>
    IN  IF container = NULL
        THEN Same(<<>>, failed, NoException)
        ELSE IF force
        THEN LET k == DockerKill(containers, container.id)
                 s == DockerStart(k.containers, container.id)
             IN  IF ~k.ok
                 THEN Same(<<Call("kill", container.id)>>, failed, NoException)
                 ELSE Outcome(s.containers, nextId, container, backup_container,
                              <<Call("kill", container.id), Call("start", container.id)>>,
                              IF s.ok THEN done ELSE failed, NoException)
        ELSE LET r == DockerRestart(containers, container.id)
             IN  Outcome(r.containers, nextId, container, backup_container,
                         <<Call("restart", container.id)>>,
                         IF r.ok THEN done ELSE failed, NoException)

\* str.lower() on the strings the runtime reports
lower(s) ==
    CASE s = "Running" -> "running"
      [] s = "Healthy" -> "healthy"
      [] s = "Starting" -> "starting"
      [] OTHER -> s

\* health is what `docker container inspect -f '{{ .State.Health.Status }}' name`
\* prints; the command fails when no container has that name.
get_status(health) ==
    LET inspect == <<Call("inspect", IdByName(containers, name))>>
    IN  IF IdByName(containers, name) = 0
        THEN Same(inspect, <<>>, "CalledProcessError")
        ELSE IF container = NULL
        THEN Same(inspect, <<>>, "AttributeError")
        ELSE IF lower(container.status) = "running"
        THEN Same(inspect,
                  <<IF lower(health) = "healthy"
                    THEN Log("success", <<"Server is running and healthy">>)
                    ELSE IF lower(health) = "starting"
                    THEN Log("notice", <<"Server is starting">>)
                    ELSE Log("warn", <<"Server is running but in degraded state: ",
                                       health>>)>>,
                  NoException)
        ELSE Same(inspect, <<Log("info", <<"Server is ", container.status>>)>>,
                  NoException)

\* os.system("docker exec -i <name> rcon-cli"): returns the exit code, never raises.
open_console ==
    Same(<<Call("exec", IdByName(containers, name))>>, <<>>, NoException)

\* ---------------------------------------------------------------- actions

Op(op, force) == [op |-> op, force |-> force]

Do(op, o) ==
    /\ containers' = o.containers
    /\ nextId' = o.nextId
    /\ container' = o.container
    /\ backup_container' = o.backup_container
    /\ calls' = o.calls
    /\ logs' = o.logs
    /\ raised' = o.raised
    /\ lastOp' = op
    /\ prev' = [op |-> lastOp.op, ok |-> Succeeded(logs, raised)]
    /\ UNCHANGED name

Faults == {"none", "run", "scan"}

MayCreate == nextId <= Cardinality(HostNames) + MaxCreated

Create ==
    /\ MayCreate
    /\ \E args \in ArgsSet, rootExists \in BOOLEAN, fault \in Faults :
           Do(Op("create", FALSE), create_server(args, rootExists, fault))

CreateBackup ==
    /\ MayCreate
    /\ \E args \in ArgsSet, exitOk \in BOOLEAN, fault \in BOOLEAN :
           Do(Op("create_backup", FALSE), _start_backup_cont(args, exitOk, fault))

Delete == Do(Op("delete", FALSE), delete_server)

Start == Do(Op("start", FALSE), start_server)

Stop == \E force \in BOOLEAN : Do(Op("stop", force), stop_server(force))

Restart == \E force \in BOOLEAN : Do(Op("restart", force), restart_server(force))

GetStatus == \E health \in HealthValues : Do(Op("get_status", FALSE), get_status(health))

OpenConsole == Do(Op("open_console", FALSE), open_console)

PreExisting == {[id |-> HostId(n), name |-> n, status |-> st] :
                    n \in HostNames, st \in Statuses}

InitRuntimes == {cs \in SUBSET PreExisting : \A c, d \in cs : c.id = d.id => c = d}

\* ServerManager.__init__
Init ==
    /\ name \in ServerNames
    /\ containers \in InitRuntimes
    /\ nextId = Cardinality(HostNames) + 1
    /\ container = _get_container(containers)
    /\ backup_container = NULL
    /\ lastOp = Op("__init__", FALSE)
    /\ prev = [op |-> "none", ok |-> FALSE]
    /\ calls = <<ListCall>>
    /\ logs = <<>>
    /\ raised = NoException

Next ==
    \/ Create
    \/ CreateBackup
    \/ Delete
    \/ Start
    \/ Stop
    \/ Restart
    \/ GetStatus
    \/ OpenConsole

Spec == Init /\ [][Next]_vars

\* ---------------------------------------------------------------- properties

Issued(cl, op) == \E i \in 1..Len(cl) : cl[i].op = op

Logged(lg, level, text) == \E i \in 1..Len(lg) : lg[i] = Log(level, <<text>>)

AlreadyRunning == <<Log("warn", <<"Server Already Running">>)>>

BackupIds == {c.id : c \in {d \in containers : d.name = BackupNameOf(name)}}

\* C1: no operation lets an exception propagate to its caller: whatever the
\* manager state, every failure is caught inside the operation.
C1_NoExceptionPropagates == raised = NoException

\* C2: start() on a held container issues a runtime start call if and only if
\* the held state is not "running"; a start that goes through issues exactly one
\* start call and refreshes the reference, and a second start() right after it
\* logs the "already running" warning and issues no runtime call.
C2_StartStep ==
    (lastOp'.op = "start" /\ container # NULL) =>
        /\ Issued(calls', "start") <=> container.status # "running"
        /\ Succeeded(logs', raised') =>
              /\ calls' = <<Call("start", container.id), ListCall>>
              /\ container' = [container EXCEPT !.status = "running"]

C2_SecondStart ==
    (prev.op = "start" /\ prev.ok /\ lastOp.op = "start") =>
        /\ calls = <<>>
        /\ logs = AlreadyRunning
        /\ raised = NoException

\* C2: start() issues a runtime start call iff the held container's state is
\* not "running" (C2_StartStep), and a second start() in succession warns and
\* issues no runtime start call (C2_SecondStart).
C2_StartTwice == [](C2_SecondStart) /\ [][C2_StartStep]_vars

C2_Witness ==
    /\ prev.op = "start" /\ prev.ok
    /\ lastOp.op = "start"
    /\ logs = AlreadyRunning

\* C3: delete() on a null reference logs "Failed to Delete Server", issues no
\* remove call, raises nothing and leaves the reference null (and the runtime
\* untouched).
C3_DeleteStep ==
    (lastOp'.op = "delete" /\ container = NULL) =>
        /\ Logged(logs', "err", "Failed to Delete Server")
        /\ ~Issued(calls', "remove")
        /\ raised' = NoException
        /\ container' = NULL
        /\ containers' = containers

\* C3: every delete() step taken on a null reference satisfies C3_DeleteStep.
C3_DeleteOnNull == [][C3_DeleteStep]_vars

C3_Witness ==
    /\ lastOp.op = "delete"
    /\ container = NULL
    /\ logs = <<Log("err", <<"Failed to Stop Server">>),
                Log("err", <<"Failed to Delete Server">>)>>

\* C4 (as claimed): after a successful create(), the first start() issues a
\* runtime start call rather than the "already running" warning.
C4_FirstStartIssuesStart ==
    (prev.op = "create" /\ prev.ok /\ lastOp.op = "start") =>
        /\ container # NULL
        /\ Issued(calls, "start")
        /\ logs # AlreadyRunning

\* C4 (amended): a successful create() leaves a non-null reference to the
\* container it ran, held as "running"; the first start() after it therefore
\* logs the "already running" warning and issues no runtime call, with no
\* prior start().
C4_CreateThenStart ==
    /\ (lastOp.op = "create" /\ Succeeded(logs, raised)) =>
          /\ container # NULL
          /\ container.name = name
          /\ container.status = "running"
    /\ (prev.op = "create" /\ prev.ok /\ lastOp.op = "start") =>
          /\ container # NULL
          /\ calls = <<>>
          /\ logs = AlreadyRunning
          /\ raised = NoException

C4_Witness ==
    /\ prev.op = "create" /\ prev.ok
    /\ lastOp.op = "start"
    /\ container # NULL
    /\ logs = AlreadyRunning

\* C5: a create() that fails (in the run call or in the name scan) logs the
\* error with the exception detail, raises nothing, leaves both references as
\* they were and issues no rollback or cleanup call.
C5_CreateStep ==
    (lastOp'.op = "create" /\ ~Succeeded(logs', raised')) =>
        /\ raised' = NoException
        /\ Len(logs') >= 2
        /\ logs'[Len(logs') - 1] = Log("err", <<"Failed to Create Server">>)
        /\ logs'[Len(logs')].level = "err"
        /\ logs'[Len(logs')].msg \in {<<"APIError">>}
        /\ container' = container
        /\ backup_container' = backup_container
        /\ \A i \in 1..Len(calls') : calls'[i].op \in {"run", "list"}

\* C5: every failing create() step leaves the manager's state unchanged, logs
\* the exception and raises nothing (C5_CreateStep).
C5_FailedCreate == [][C5_CreateStep]_vars

C5_Witness ==
    /\ lastOp.op = "create"
    /\ Logged(logs, "err", "Failed to Create Server")
    /\ Issued(calls, "list")
    /\ container = NULL
    /\ IdByName(containers, name) # 0

\* C6: every operation but create_backup leaves the backup reference as it was
\* and issues no runtime call against the backup container.
C6_BackupStep ==
    (lastOp'.op # "create_backup") =>
        /\ backup_container' = backup_container
        /\ \A i \in 1..Len(calls') :
              /\ calls'[i].id \notin BackupIds
              /\ calls'[i].op = "run" => calls'[i].name # BackupNameOf(name)
        /\ \A c \in containers : c.name = BackupNameOf(name) => c \in containers'

\* C6: only create_backup writes the backup reference or touches the backup
\* container (C6_BackupStep holds of every step).
C6_BackupOutsideLifecycle == [][C6_BackupStep]_vars

C6_Witness ==
    /\ backup_container # NULL
    /\ BackupIds # {}
    /\ lastOp.op = "delete"
    /\ Succeeded(logs, raised)

\* C7: restart(force) on a held container issues kill then start when force is
\* set, the start only if the kill did not fail, and exactly one restart call
\* otherwise; every failure is logged as "Failed to Restart Server" and nothing
\* is raised. On a null reference it issues no call and logs the same failure.
C7_RestartStep ==
    (lastOp'.op = "restart") =>
        /\ raised' = NoException
        /\ \/ Succeeded(logs', raised')
           \/ logs' = <<Log("err", <<"Failed to Restart Server">>)>>
        /\ container = NULL => (calls' = <<>> /\ ~Succeeded(logs', raised'))
        /\ (container # NULL /\ lastOp'.force) =>
              /\ calls'[1] = Call("kill", container.id)
              /\ IF DockerKill(containers, container.id).ok
                 THEN calls' = <<Call("kill", container.id), Call("start", container.id)>>
                 ELSE calls' = <<Call("kill", container.id)>> /\ ~Succeeded(logs', raised')
        /\ (container # NULL /\ ~lastOp'.force) =>
              calls' = <<Call("restart", container.id)>>

\* C7: every restart(force) step issues the calls C7_RestartStep states and
\* swallows its failures.
C7_Restart == [][C7_RestartStep]_vars

C7_Witness ==
    /\ lastOp = Op("restart", TRUE)
    /\ container # NULL
    /\ calls = <<Call("kill", container.id), Call("start", container.id)>>
    /\ Succeeded(logs, raised)

\* C8: the reference is null or denotes a container bearing exactly the bound
\* name, and a name scan (at construction, after create, after start) returns
\* null exactly when no container, running or stopped, has that name.
C8_Scanned ==
    \/ lastOp.op = "__init__"
    \/ lastOp.op \in {"create", "start"} /\ Succeeded(logs, raised)

\* C8: the reference is null or bears the bound name, at most one container
\* bears it, and a scan returns null exactly when none does.
C8_NameScan ==
    /\ container # NULL => container.name = name
    /\ Cardinality({c \in containers : c.name = name}) <= 1
    /\ C8_Scanned =>
          /\ container = NULL <=> ~\E c \in containers : c.name = name
          /\ container # NULL => container \in containers

C8_Witness ==
    /\ lastOp.op = "start"
    /\ Succeeded(logs, raised)
    /\ container # NULL
    /\ \E c \in containers : c.name # name /\ c.status = "running"

RequiredEnv == {"VERSION", "EULA", "SPAWN_PROTECTION", "ALLOW_FLIGHT",
                "ENFORCE_WHITELIST"}

\* C9: the environment create() hands to the runtime always holds the version,
\* the licence acceptance flag and the three fixed defaults.
C9_EnvHasDefaults ==
    \A i \in 1..Len(calls) :
        (calls[i].op = "run" /\ calls[i].name = name) =>
            RequiredEnv \subseteq DOMAIN calls[i].environment

\* C10: delete() on a held container issues kill and then remove, the remove
\* also when the kill failed; after a remove that went through the container
\* is gone from the runtime, so the held reference denotes no live container.
C10_DeleteStep ==
    (lastOp'.op = "delete" /\ container # NULL) =>
        /\ calls' = <<Call("kill", container.id), Call("remove", container.id)>>
        /\ raised' = NoException
        /\ Logged(logs', "success", "Successfully Deleted Server") =>
              /\ ~Exists(containers', container.id)
              /\ ~Exists(containers', container'.id)
        /\ Exists(containers, container.id) =>
              Logged(logs', "success", "Successfully Deleted Server")

\* C10: every delete() step on a held container force-stops, then removes
\* (C10_DeleteStep).
C10_DeleteRemoves == [][C10_DeleteStep]_vars

C10_Witness ==
    /\ lastOp.op = "delete"
    /\ container # NULL
    /\ ~Exists(containers, container.id)
    /\ logs = <<Log("err", <<"Failed to Stop Server">>),
                Log("success", <<"Successfully Deleted Server">>)>>

====
